---- MODULE Spec2Model ----
(***************************************************************************)
(* Model of the CSV profiling engine of fix_my_csv, in its two variants:   *)
(*   "service" : src/src/csv_tools/profiler.py  (CSVProfilerService)        *)
(*   "script"  : src/scripts/profiling/profiler.py (module-level functions) *)
(* Python values are modelled as tagged records [t, n, s] so that None, an  *)
(* int, a bool, a str and a list can be told apart without comparing        *)
(* values of different TLA+ types.                                          *)
(***************************************************************************)
EXTENDS Integers, Sequences, FiniteSets, TLC

VARIABLES
    variant,        \* which profiler variant runs
    data_dir,       \* configuration: self.data_dir / DATA_DIR
    report_file,    \* configuration: self.report_file / REPORT_FILE
    sample_size,    \* configuration: self.sample_size / SAMPLE_SIZE
    csvkit_enabled, \* configuration: self.csvkit_enabled / CSVKIT_ENABLED
    pc,             \* position of the program
    csv_files,      \* the files the directory walk discovered, in order
    idx,            \* position of the batch loop in csv_files
    file_info,      \* the record profile_file is building (a dict)
    enc,            \* the encoding local of profile_file
    encArgs,        \* history: the encoding each probe of this file was called with
    all_records,    \* the records the batch driver has collected
    steps,          \* history: steps the current profile_file has invoked
    attempted,      \* history: paths profile_file was called on in this run
    raisedOn,       \* history: paths on which profile_file raised
    csvkitCalls,    \* history: number of try_csvkit invocations in this run
    writeAttempts,  \* history: number of write_parquet calls in this run
    report,         \* the rows of the artifact at the report path
    outcome,        \* how the batch driver ended: "none", "returned", "raised"
    walked,         \* history: the directory walk of this run took place
    wrote,          \* history: result of the write step, "none" before it
    log,            \* the messages printed and logged by the batch driver
    proc,           \* try_csvkit harness: the outcome of the external process
    kit,            \* try_csvkit harness: the tuple try_csvkit returned
    hfiles,         \* compute_hash harness: the files to hash
    hk,             \* compute_hash harness: the file being hashed
    hpos,           \* compute_hash harness: the offset of the open file
    sha,            \* compute_hash harness: the bytes the sha256 object absorbed
    digests,        \* compute_hash harness: the digests returned so far
    answers,        \* history: what the user answered in the last configuration
    state,          \* CLIOrchestrator.state
    calls,          \* history: the update calls made, with the state they found
    invoked,        \* history: the handlers invoked, with the state they found
    status          \* the exit status of the process, None while it runs

vars == <<variant, data_dir, report_file, sample_size, csvkit_enabled, pc,
          csv_files, idx, file_info, enc, encArgs, all_records, steps, attempted,
          raisedOn, csvkitCalls, writeAttempts, report, outcome, walked, wrote,
          log, proc, kit, hfiles, hk, hpos, sha, digests, answers, state, calls,
          invoked, status>>

cfgVars == <<data_dir, report_file, sample_size, csvkit_enabled>>
kitVars == <<proc, kit>>
hashVars == <<hfiles, hk, hpos, sha, digests>>
\* the variables of the harnesses the batch run leaves alone
cliVars == <<state, calls, invoked, status>>
sideVars == <<hashVars, answers, cliVars>>

----------------------------------------------------------------------------
(* Bounds *)

MaxFiles == 2      \* longest directory listing explored
MaxJsonLen == 3    \* longest JSON array / string / object the tool prints
MaxCalls == 4      \* update calls made on one orchestrator
MaxSelections == 3 \* tasks selected in the menu during one run
MaxBytes == 5      \* longest file content hashed byte by byte
ChunkSize == 2     \* bytes per f.read in compute_hash (8192 in the source)

----------------------------------------------------------------------------
(* Python values *)

V(t, n, s) == [t |-> t, n |-> n, s |-> s]
None == V("None", 0, "")
IntV(k) == V("int", k, "")
BoolV(b) == V("bool", IF b THEN 1 ELSE 0, "")
StrV(s) == V("str", 0, s)
PathV(s) == V("path", 0, s)
ListV(len) == V("list", len, "")
TimeV == V("datetime", 0, "")
True == BoolV(TRUE)
False == BoolV(FALSE)

IsNone(v) == v.t = "None"
Populated(v) == v.t # "None"

\* Python truthiness of the values the code tests
Truthy(v) ==
    CASE v.t = "None" -> FALSE
      [] v.t = "bool" -> v.n = 1
      [] v.t = "int" -> v.n # 0
      [] v.t = "str" -> v.s # ""
      [] v.t = "list" -> v.n # 0
      [] OTHER -> TRUE

\* dict.update(e)
Update(d, e) ==
    [k \in (DOMAIN d) \cup (DOMAIN e) |-> IF k \in DOMAIN e THEN e[k] ELSE d[k]]

EmptyDict == [k \in {} |-> None]

----------------------------------------------------------------------------
(* Configuration defaults *)

DEFAULT_DATA_DIR == PathV("test_csvs")
DEFAULT_REPORT_FILE == PathV("csv_profile_report.parquet")
DEFAULT_SAMPLE_SIZE == IntV(32 * 1024)
DEFAULT_CSVKIT_ENABLED == True

\* CSVProfilerService.__init__
ServiceInitConfig ==
    [data_dir |-> DEFAULT_DATA_DIR, report_file |-> DEFAULT_REPORT_FILE,
     sample_size |-> DEFAULT_SAMPLE_SIZE, csvkit_enabled |-> True]

\* the module-level globals of the script before init() runs
ScriptInitConfig ==
    [data_dir |-> None, report_file |-> None,
     sample_size |-> None, csvkit_enabled |-> None]

----------------------------------------------------------------------------
(* Text typed by the user: a sequence of one-character strings *)

Digits == {"0", "1", "2", "3", "4", "5", "6", "7", "8", "9"}

DigitVal(c) ==
    CASE c = "0" -> 0 [] c = "1" -> 1 [] c = "2" -> 2 [] c = "3" -> 3
      [] c = "4" -> 4 [] c = "5" -> 5 [] c = "6" -> 6 [] c = "7" -> 7
      [] c = "8" -> 8 [] c = "9" -> 9

RECURSIVE Join(_)
Join(txt) == IF txt = <<>> THEN "" ELSE Head(txt) \o Join(Tail(txt))

\* str.lower() on the characters the prompts receive
LowerChar(c) == IF c = "Y" THEN "y" ELSE IF c = "N" THEN "n" ELSE c
Lower(txt) == [i \in 1..Len(txt) |-> LowerChar(txt[i])]

\* int(text) raises ValueError unless the text is a decimal numeral
IntRaises(txt) == txt = <<>> \/ \E i \in 1..Len(txt) : txt[i] \notin Digits

RECURSIVE IntOf(_)
IntOf(txt) ==
    IF txt = <<>> THEN 0
    ELSE 10 * IntOf(SubSeq(txt, 1, Len(txt) - 1)) + DigitVal(txt[Len(txt)])

\* pathlib.Path(text): the empty text is the current directory
Path(txt) == PathV(IF txt = <<>> THEN "." ELSE Join(txt))

\* CSVProfilerService.configure: the configuration it leaves behind
configure(cfg, in) ==
    IF in.use_defaults
    THEN [data_dir |-> DEFAULT_DATA_DIR, report_file |-> DEFAULT_REPORT_FILE,
          sample_size |-> DEFAULT_SAMPLE_SIZE, csvkit_enabled |-> True]
    ELSE [data_dir |-> IF in.dir_input # <<>> THEN Path(in.dir_input)
                       ELSE DEFAULT_DATA_DIR,
          report_file |-> IF in.report_input # <<>> THEN Path(in.report_input)
                          ELSE DEFAULT_REPORT_FILE,
          sample_size |-> IF in.sample_input = <<>> THEN DEFAULT_SAMPLE_SIZE
                          ELSE IF IntRaises(in.sample_input)
                               THEN DEFAULT_SAMPLE_SIZE
                               ELSE IntV(IntOf(in.sample_input)),
          csvkit_enabled |-> BoolV(in.csvkit)]

\* init() of the script: the globals it leaves behind, and whether the
\* int() of the sample size raised (the assignments before it are kept)
init(cfg, in) ==
    IF Lower(in.use_defaults) = <<"y">>
    THEN [cfg |-> cfg, raised |-> FALSE]
    ELSE LET c1 == [cfg EXCEPT !.csvkit_enabled =
                        IF Lower(in.csvkit) = <<"y">> THEN True
                        ELSE DEFAULT_CSVKIT_ENABLED]
             c2 == [c1 EXCEPT !.data_dir = Path(in.dir)]
             c3 == [c2 EXCEPT !.report_file = Path(in.report)]
         IN  IF IntRaises(in.sample)
             THEN [cfg |-> c3, raised |-> TRUE]
             ELSE [cfg |-> [c3 EXCEPT !.sample_size = IntV(IntOf(in.sample))],
                   raised |-> FALSE]

\* what the user types in this model
SampleTexts == {<<>>, <<"x">>, <<"0">>}
PathTexts == {<<>>}
ConfigureInputs ==
    [use_defaults : BOOLEAN, dir_input : PathTexts, report_input : PathTexts,
     sample_input : SampleTexts, csvkit : BOOLEAN]
InitInputs ==
    [use_defaults : {<<"Y">>, <<"n">>}, csvkit : {<<"y">>, <<"n">>},
     dir : PathTexts, report : PathTexts, sample : SampleTexts]

\* what the user types when only the configuration is under study
CfgPathTexts == {<<>>, <<"d">>, <<"e">>}
CfgSampleTexts == {<<>>, <<"x">>, <<"8">>}
CfgConfigureInputs ==
    [use_defaults : BOOLEAN, dir_input : CfgPathTexts,
     report_input : CfgPathTexts, sample_input : CfgSampleTexts,
     csvkit : BOOLEAN]
CfgInitInputs ==
    [use_defaults : {<<"y">>, <<"Y">>, <<"n">>}, csvkit : {<<"y">>, <<"n">>},
     dir : CfgPathTexts, report : CfgPathTexts, sample : CfgSampleTexts]

\* nothing was asked yet
NoAnswers == [asked |-> FALSE, defaults |-> FALSE, validator |-> "unasked"]

\* the answers to "use defaults?" and, when it is asked, "enable csvkit?"
Answers(defaults, validator) ==
    [asked |-> TRUE, defaults |-> defaults,
     validator |-> IF defaults THEN "unasked"
                   ELSE IF validator THEN "yes" ELSE "no"]

----------------------------------------------------------------------------
(* Files *)

Contents == {"empty", "data"}
SizeOf(content) == IF content = "empty" THEN 0 ELSE 5
File(i, content) == [path |-> i, content |-> content]
PathStr(f) == V("str", f.path, "csv")

\* the listings rglob("*.csv") can produce: distinct paths, any contents
Listings ==
    UNION {[1..n -> Contents] : n \in 0..MaxFiles}
Listing(cs) == [i \in 1..Len(cs) |-> File(i, cs[i])]

\* compute_hash: the digest is a function of the content
compute_hash(f) == StrV("sha256:" \o f.content)

\* f.read(sample_size): number of bytes read
ReadLen(f, size) ==
    IF IsNone(size) \/ size.n < 0 \/ size.n > SizeOf(f.content)
    THEN SizeOf(f.content) ELSE size.n

\* chardet.detect(raw): no guess for an empty sample, a guess or none otherwise
NoGuess == [encoding |-> None, confidence |-> V("float", 0, "")]
AsciiGuess == [encoding |-> StrV("ascii"), confidence |-> V("float", 100, "")]
ChardetResults(rawLen) == IF rawLen = 0 THEN {NoGuess} ELSE {NoGuess, AsciiGuess}

\* CSVProfilerService.detect_encoding after chardet answered
detect_encoding_service(result) ==
    <<IF Truthy(result.encoding) THEN result.encoding ELSE StrV("utf-8"),
      result.confidence>>

\* detect_encoding of the script: dict.get returns the stored None
detect_encoding_script(result) ==
    <<result.encoding, result.confidence>>

detect_encoding(v, result) ==
    IF v = "service" THEN detect_encoding_service(result)
    ELSE detect_encoding_script(result)

----------------------------------------------------------------------------
(* Parse probes *)

ProbeNames == <<"pandas", "polars", "python_csv">>

\* what the parsing library does: returns a frame or raises
Parsed(f) ==
    [exc |-> FALSE, msg |-> "",
     rows |-> IF f.content = "empty" THEN 0 ELSE 2,
     cols |-> IF f.content = "empty" THEN 0 ELSE 3]
Raised(msg) == [exc |-> TRUE, msg |-> msg, rows |-> 0, cols |-> 0]

\* pandas and polars reject an empty file; every read can fail to decode
LibOutcomes(name, f) ==
    {Raised("error")} \cup
    (IF f.content = "empty" /\ name # "python_csv" THEN {} ELSE {Parsed(f)})

\* mutant of try_pandas: the except branch fills the shape fields
try_pandas_fills_shape(o) ==
    IF o.exc THEN <<False, IntV(0), IntV(0), ListV(0), StrV(o.msg)>>
    ELSE <<True, IntV(o.rows), IntV(o.cols), ListV(o.cols), None>>

try_pandas(o) ==
    IF o.exc THEN <<False, None, None, None, StrV(o.msg)>>
    ELSE <<True, IntV(o.rows), IntV(o.cols), ListV(o.cols), None>>

try_polars(o) ==
    IF o.exc THEN <<False, None, None, None, StrV(o.msg)>>
    ELSE <<True, IntV(o.rows), IntV(o.cols), ListV(o.cols), None>>

try_python_csv(o) ==
    IF o.exc THEN <<False, None, None, None, StrV(o.msg)>>
    ELSE <<True, IntV(o.rows), IntV(o.cols), ListV(o.cols), None>>

Probe(name, o) ==
    CASE name = "pandas" -> try_pandas(o)
      [] name = "polars" -> try_polars(o)
      [] name = "python_csv" -> try_python_csv(o)

\* the five fields one probe adds to file_info
ProbeFields(name, r) ==
    (name \o "_success" :> r[1]) @@ (name \o "_rows" :> r[2]) @@
    (name \o "_cols" :> r[3]) @@ (name \o "_headers" :> r[4]) @@
    (name \o "_error" :> r[5])

----------------------------------------------------------------------------
(* External validator: subprocess.run(["csvstat", path, "--json"]) *)

\* what the tool can print: a JSON value, abstracted to its kind and to the
\* kinds of its elements
ElemKinds == {"obj_rc", "obj_norc", "num"}
Elems == UNION {[1..n -> ElemKinds] : n \in 0..MaxJsonLen}
Json(kind, elems) == [kind |-> kind, elems |-> elems]
JsonValues ==
    {Json("invalid", <<>>), Json("null", <<>>), Json("number", <<>>)}
    \cup {Json("array", e) : e \in Elems}
    \cup {Json(k, [i \in 1..n |-> "member"]) :
             k \in {"string", "object"}, n \in 0..MaxJsonLen}

\* an array of objects that each carry row_count
WellFormed(j) ==
    j.kind = "array" /\ \A i \in 1..Len(j.elems) : j.elems[i] = "obj_rc"

Exit(code, stdout) == [how |-> "exit", code |-> code, stdout |-> stdout]
SpawnError == [how |-> "FileNotFoundError", code |-> 0, stdout |-> Json("invalid", <<>>)]
Timeout == [how |-> "TimeoutExpired", code |-> 0, stdout |-> Json("invalid", <<>>)]
ProcOutcomes ==
    {SpawnError, Timeout, Exit(1, Json("invalid", <<>>))}
    \cup {Exit(0, j) : j \in JsonValues}

\* the exception, if any, that lines 96-98 raise on the tool's output
KitException(j) ==
    CASE j.kind = "invalid" -> "JSONDecodeError"        \* json.loads
      [] j.kind \in {"null", "number"} -> "TypeError"   \* len(stats)
      [] Len(j.elems) = 0 -> "none"                     \* stats is falsy
      [] j.kind = "object" -> "KeyError"                \* stats[0]
      [] j.kind = "string" -> "TypeError"               \* "c"["row_count"]
      [] j.elems[1] = "obj_norc" -> "KeyError"
      [] j.elems[1] = "num" -> "TypeError"
      [] OTHER -> "none"

\* the value every row_count carries in this model
RowCountOf(j) == IntV(5)

try_csvkit(p) ==
    IF p.how # "exit" THEN <<False, None, None, StrV(p.how)>>
    ELSE IF p.code = 0
         THEN IF KitException(p.stdout) # "none"
              THEN <<False, None, None, StrV(KitException(p.stdout))>>
              ELSE <<True,
                     IF Len(p.stdout.elems) # 0 THEN RowCountOf(p.stdout) ELSE None,
                     IntV(Len(p.stdout.elems)), None>>
         ELSE <<False, None, None, StrV("stderr")>>

\* the outcomes the batch model draws from: the tool answers or is missing
BatchProcOutcomes ==
    {SpawnError, Exit(0, Json("array", <<"obj_rc", "obj_rc">>))}

NoProc == [how |-> "idle", code |-> 0, stdout |-> Json("invalid", <<>>)]
NoKit == <<None, None, None, None>>

CsvkitFields(r) ==
    ("csvkit_success" :> r[1]) @@ ("csvkit_rows" :> r[2]) @@
    ("csvkit_cols" :> r[3]) @@ ("csvkit_error" :> r[4])

----------------------------------------------------------------------------
(* compute_hash, byte by byte *)

Bytes == {"a", "b"}
ByteStrings == UNION {[1..n -> Bytes] : n \in 0..MaxBytes}

\* hashlib.sha256(): nothing absorbed yet
sha256_new == <<>>

\* sha256.update(chunk): the object absorbs the chunk after what it holds
sha256_update(h, chunk) == h \o chunk

\* sha256.hexdigest(): a digest of the absorbed bytes, taken as collision free
sha256_hexdigest(h) == [t |-> "str", n |-> 0, s |-> "sha256", of |-> h]

\* mutant of f_read: a read that cannot fill the chunk returns nothing
f_read_drops_short(bytes, pos, n) ==
    IF pos + n <= Len(bytes) THEN SubSeq(bytes, pos + 1, pos + n) ELSE <<>>

\* f.read(n) at offset pos: up to n bytes, fewer at the end of the file
f_read(bytes, pos, n) ==
    SubSeq(bytes, pos + 1, IF pos + n <= Len(bytes) THEN pos + n ELSE Len(bytes))

\* the harness is not in use
HashIdle ==
    /\ hfiles = <<>>
    /\ hk = 0
    /\ hpos = 0
    /\ sha = sha256_new
    /\ digests = <<>>

----------------------------------------------------------------------------
(* The state machine of the git menu: GitStates and CLIOrchestrator.update *)

GitStates == {"INIT", "RUNNING", "EXIT", "ERROR"}

\* GitStates.next
state_next(s) ==
    IF s \in {"EXIT", "ERROR"} THEN s
    ELSE CASE s = "INIT" -> "RUNNING"
           [] s = "RUNNING" -> "EXIT"
           [] OTHER -> s

\* mutant of update: the transition is not validated
update_unchecked(s, target) == [state |-> target, raised |-> FALSE]

\* CLIOrchestrator.update: the state it leaves, and whether it raised
\* RuntimeError
update(s, target) ==
    IF target = "ERROR" THEN [state |-> target, raised |-> FALSE]
    ELSE IF state_next(s) = target \/ s = target
         THEN [state |-> target, raised |-> FALSE]
         ELSE [state |-> s, raised |-> TRUE]

\* the tasks main() registers
Tasks == {"ls", "lsa", "swb", "s", "p"}

\* how a call made inside the try block of run can end: it returns, raises an
\* Exception, or raises a BaseException that is no Exception (the
\* KeyboardInterrupt of Ctrl-C in a prompt or during a subprocess)
CallOutcomes == {"returns", "raises", "interrupted"}

\* the process ended by the uncaught KeyboardInterrupt
Interrupted == V("signal", 2, "SIGINT")

\* mutant of after_call: an Exception of the handler is swallowed and the
\* menu is shown again
after_call_swallows(o) ==
    CASE o = "returns" -> "run_select"
      [] o = "raises" -> "run_select"
      [] o = "interrupted" -> "run_exited"

\* where run goes after a call inside its try block: round the loop, into
\* the except clause, or out of run with the exception
after_call(o) ==
    CASE o = "returns" -> "run_select"
      [] o = "raises" -> "run_except"
      [] o = "interrupted" -> "run_exited"

\* CLIOrchestrator.__init__, nothing called yet
CliIdle ==
    /\ state = "INIT"
    /\ calls = <<>>
    /\ invoked = <<>>
    /\ status = None

----------------------------------------------------------------------------
(* State machine of one batch run *)

Config == [data_dir |-> data_dir, report_file |-> report_file,
           sample_size |-> sample_size, csvkit_enabled |-> csvkit_enabled]

SetConfig(c) ==
    /\ data_dir' = c.data_dir
    /\ report_file' = c.report_file
    /\ sample_size' = c.sample_size
    /\ csvkit_enabled' = c.csvkit_enabled

\* the artifact at the report path before the run: none, or an older report
NoArtifact == [exists |-> FALSE, rows |-> <<>>]
StaleRow == ("file_path" :> V("str", 0, "stale"))
PriorArtifact == [exists |-> TRUE, rows |-> <<StaleRow>>]

CurFile == csv_files[idx]

\* a message of the driver: print(...) or logger.<level>(...)
Msg(tag, n) == [msg |-> tag, n |-> n]

InitConfig(v) == IF v = "service" THEN ServiceInitConfig ELSE ScriptInitConfig

\* variables of the profile_file call in progress
fileVars == <<file_info, enc, encArgs, steps>>
\* variables of the batch loop
loopVars == <<csv_files, idx, all_records, attempted, raisedOn, walked>>
\* variables of the end of the run
endVars == <<writeAttempts, report, outcome, wrote>>

Init ==
    /\ variant \in {"service", "script"}
    /\ data_dir = InitConfig(variant).data_dir
    /\ report_file = InitConfig(variant).report_file
    /\ sample_size = InitConfig(variant).sample_size
    /\ csvkit_enabled = InitConfig(variant).csvkit_enabled
    /\ pc = IF variant = "service" THEN "menu" ELSE "main"
    /\ csv_files = <<>>
    /\ idx = 1
    /\ file_info = EmptyDict
    /\ enc = None
    /\ encArgs = <<>>
    /\ all_records = <<>>
    /\ steps = <<>>
    /\ attempted = <<>>
    /\ raisedOn = {}
    /\ csvkitCalls = 0
    /\ writeAttempts = 0
    /\ report \in {NoArtifact, PriorArtifact}
    /\ outcome = "none"
    /\ walked = FALSE
    /\ wrote = "none"
    /\ log = <<>>
    /\ proc = NoProc
    /\ kit = NoKit
    /\ HashIdle
    /\ answers = NoAnswers
    /\ CliIdle

\* the batch driver ends, returning or raising to its caller
Finish(how) ==
    /\ pc' = "done"
    /\ outcome' = how

\* menu item "Configure Settings" of the service
Configure ==
    /\ variant = "service"
    /\ pc = "menu"
    /\ \E in \in ConfigureInputs : SetConfig(configure(Config, in))
    /\ UNCHANGED <<variant, pc, fileVars, loopVars, endVars, csvkitCalls, log,
                   kitVars, sideVars>>

\* run_profile of the service up to the loop (also reached by quick_profile)
RunProfile ==
    /\ variant = "service"
    /\ pc = "menu"
    /\ \E exists \in BOOLEAN, cs \in Listings :
          IF ~exists
          THEN /\ Finish("returned")
               /\ log' = Append(log, Msg("dir_not_found", 0))
               /\ UNCHANGED <<csv_files, walked>>
          ELSE /\ csv_files' = Listing(cs)
               /\ walked' = TRUE
               /\ IF cs = <<>>
                  THEN /\ Finish("returned")
                       /\ log' = Append(log, Msg("no_csv_files", 0))
                  ELSE /\ pc' = "loop"
                       /\ log' = Append(log, Msg("found", Len(cs)))
                       /\ UNCHANGED outcome
    /\ UNCHANGED <<variant, cfgVars, fileVars, idx, all_records, attempted,
                   raisedOn, csvkitCalls, writeAttempts, report, wrote,
                   kitVars, sideVars>>

\* main() of the script: init()
ScriptInit ==
    /\ variant = "script"
    /\ pc = "main"
    /\ \E in \in InitInputs :
          LET r == init(Config, in)
          IN  /\ SetConfig(r.cfg)
              /\ IF r.raised THEN Finish("raised")
                 ELSE pc' = "discover" /\ UNCHANGED outcome
    /\ UNCHANGED <<variant, fileVars, loopVars, csvkitCalls, writeAttempts,
                   report, wrote, log, kitVars, sideVars>>

\* main() of the script: DATA_DIR.rglob("*.csv")
ScriptDiscover ==
    /\ pc = "discover"
    /\ IF IsNone(data_dir)
       THEN Finish("raised") /\ UNCHANGED <<csv_files, walked>>
       ELSE /\ \E cs \in Listings : csv_files' = Listing(cs)
            /\ walked' = TRUE
            /\ pc' = "loop"
            /\ UNCHANGED outcome
    /\ UNCHANGED <<variant, cfgVars, fileVars, idx, all_records, attempted,
                   raisedOn, csvkitCalls, writeAttempts, report, wrote, log,
                   kitVars, sideVars>>

\* the loop calls profile_file on the next file
BeginFile ==
    /\ pc = "loop"
    /\ idx <= Len(csv_files)
    /\ attempted' = Append(attempted, CurFile.path)
    /\ steps' = <<>>
    /\ file_info' = EmptyDict
    /\ enc' = None
    /\ encArgs' = <<>>
    /\ pc' = "stat"
    /\ UNCHANGED <<variant, cfgVars, csv_files, idx, all_records, raisedOn,
                   walked, endVars, csvkitCalls, log, kitVars, sideVars>>

\* all_records.append(record)
append(records, record) == Append(records, record)

\* mutant of after_failure: a failure ends the walk
after_failure_aborts(i, n) == n + 1

\* the position of the loop after profile_file raised: the next file
after_failure(i, n) == i + 1

\* profile_file raises; the except clause of the loop logs and goes on
RaiseToDriver ==
    /\ raisedOn' = raisedOn \cup {CurFile.path}
    /\ log' = Append(log, Msg("failed", CurFile.path))
    /\ idx' = after_failure(idx, Len(csv_files))
    /\ pc' = "loop"
    /\ UNCHANGED <<file_info, enc, encArgs, all_records>>

\* profile_file goes on to its next step
GoOn(next) ==
    /\ pc' = next
    /\ UNCHANGED <<idx, all_records, raisedOn, log>>

\* file_path.stat(), twice
Stat ==
    /\ pc = "stat"
    /\ steps' = Append(steps, "stat")
    /\ \E ok \in BOOLEAN :
          IF ok THEN GoOn("hash") /\ UNCHANGED <<file_info, enc, encArgs>>
          ELSE RaiseToDriver
    /\ UNCHANGED <<variant, cfgVars, csv_files, attempted, walked, endVars,
                   csvkitCalls, kitVars, sideVars>>

\* compute_hash, then the dict literal of profile_file
Hash ==
    /\ pc = "hash"
    /\ steps' = Append(steps, "hash")
    /\ \E ok \in BOOLEAN :
          IF ok
          THEN /\ file_info' =
                      ("file_path" :> PathStr(CurFile)) @@
                      ("file_size_bytes" :> IntV(SizeOf(CurFile.content))) @@
                      ("last_modified" :> TimeV) @@
                      ("sha256" :> compute_hash(CurFile))
               /\ GoOn("detect")
               /\ UNCHANGED <<enc, encArgs>>
          ELSE RaiseToDriver
    /\ UNCHANGED <<variant, cfgVars, csv_files, attempted, walked, endVars,
                   csvkitCalls, kitVars, sideVars>>

\* detect_encoding: open and read the sample (which can fail), then chardet
Detect ==
    /\ pc = "detect"
    /\ steps' = Append(steps, "detect")
    /\ \E ok \in BOOLEAN,
          res \in ChardetResults(ReadLen(CurFile, sample_size)) :
          IF ok
          THEN LET d == detect_encoding(variant, res)
               IN  /\ enc' = d[1]
                   /\ file_info' = Update(file_info,
                          ("encoding" :> d[1]) @@ ("encoding_confidence" :> d[2]))
                   /\ GoOn(ProbeNames[1])
                   /\ UNCHANGED encArgs
          ELSE RaiseToDriver
    /\ UNCHANGED <<variant, cfgVars, csv_files, attempted, walked, endVars,
                   csvkitCalls, kitVars, sideVars>>

\* mutant of after_probe: the validator runs whatever the configuration
after_probe_ignores_flag(k, enabled) ==
    IF k < Len(ProbeNames) THEN ProbeNames[k + 1] ELSE "csvkit"

\* where profile_file goes after the probe at position k of the dict
after_probe(k, enabled) ==
    IF k < Len(ProbeNames) THEN ProbeNames[k + 1]
    ELSE IF Truthy(enabled) THEN "csvkit" ELSE "return"

\* mutant of probe_encoding: the probes are called with a fixed encoding
probe_encoding_fixed(e) == StrV("utf-8")

\* func(file_path, enc): the encoding argument of a probe is the local enc
probe_encoding(e) == e

\* one iteration of the probe loop of profile_file
ProbeStep ==
    /\ \E k \in 1..Len(ProbeNames) :
          /\ pc = ProbeNames[k]
          /\ steps' = Append(steps, ProbeNames[k])
          /\ \E o \in LibOutcomes(ProbeNames[k], CurFile) :
                file_info' = Update(file_info,
                    ProbeFields(ProbeNames[k], Probe(ProbeNames[k], o)))
          /\ encArgs' = Append(encArgs, probe_encoding(enc))
          /\ pc' = after_probe(k, csvkit_enabled)
    /\ UNCHANGED <<variant, cfgVars, enc, loopVars, endVars, csvkitCalls, log,
                   kitVars, sideVars>>

\* if csvkit_enabled: try_csvkit
Csvkit ==
    /\ pc = "csvkit"
    /\ steps' = Append(steps, "csvkit")
    /\ csvkitCalls' = csvkitCalls + 1
    /\ \E p \in BatchProcOutcomes :
          file_info' = Update(file_info, CsvkitFields(try_csvkit(p)))
    /\ pc' = "return"
    /\ UNCHANGED <<variant, cfgVars, enc, encArgs, loopVars, endVars, log, kitVars,
                   sideVars>>

\* return file_info; the loop appends the record
Return ==
    /\ pc = "return"
    /\ all_records' = append(all_records, file_info)
    /\ idx' = idx + 1
    /\ pc' = "loop"
    /\ UNCHANGED <<variant, cfgVars, fileVars, csv_files, attempted, raisedOn,
                   walked, endVars, csvkitCalls, log, kitVars, sideVars>>

\* after the loop: does the driver go on to the write step?
writes_report(v, records) == v = "script" \/ records # <<>>

EndLoop ==
    /\ pc = "loop"
    /\ idx > Len(csv_files)
    /\ IF writes_report(variant, all_records)
       THEN pc' = "write" /\ UNCHANGED <<outcome, log>>
       ELSE Finish("returned") /\ log' = Append(log, Msg("no_success", 0))
    /\ UNCHANGED <<variant, cfgVars, fileVars, loopVars, writeAttempts, report,
                   wrote, csvkitCalls, kitVars, sideVars>>

\* how the driver ends after the write step: the service catches the failure
write_result(v, w) ==
    IF v = "service" \/ w = "ok" THEN "returned" ELSE "raised"

\* what the driver prints after the write step
write_log(v, w, n) ==
    IF w = "ok"
    THEN IF v = "service" THEN <<Msg("report_written", 0), Msg("profiled", n)>>
         ELSE <<Msg("report_written", 0)>>
    ELSE IF v = "service" THEN <<Msg("write_failed", 0)>> ELSE <<>>

\* what building the frame and writing it can do; an empty list of records
\* always makes a frame
WriteOutcomes(records) ==
    {"ok", "write_error"} \cup (IF records = <<>> THEN {} ELSE {"frame_error"})

\* mutant of write_parquet: rows with a digest already written are dropped
write_parquet_dedups(old, records) ==
    [exists |-> TRUE,
     rows |-> SelectSeq(records, LAMBDA r :
                  r = CHOOSE q \in {records[i] : i \in 1..Len(records)} :
                          q["sha256"] = r["sha256"])]

\* df.write_parquet(report_file): the artifact holds the rows of the frame,
\* one per record, whatever was at the path before
write_parquet(old, records) == [exists |-> TRUE, rows |-> records]

\* pl.DataFrame(all_records) and df.write_parquet(report_file)
Write ==
    /\ pc = "write"
    /\ \E w \in WriteOutcomes(all_records) :
          /\ wrote' = w
          /\ writeAttempts' = IF w = "frame_error" THEN writeAttempts
                              ELSE writeAttempts + 1
          /\ report' = IF w = "ok" THEN write_parquet(report, all_records)
                       ELSE report
          /\ log' = log \o write_log(variant, w, Len(all_records))
          /\ Finish(write_result(variant, w))
    /\ UNCHANGED <<variant, cfgVars, fileVars, loopVars, csvkitCalls, kitVars, sideVars>>

Next ==
    \/ Configure
    \/ RunProfile
    \/ ScriptInit
    \/ ScriptDiscover
    \/ BeginFile
    \/ Stat
    \/ Hash
    \/ Detect
    \/ ProbeStep
    \/ Csvkit
    \/ Return
    \/ EndLoop
    \/ Write

Spec == Init /\ [][Next]_vars

----------------------------------------------------------------------------
(* try_csvkit on its own: every outcome of the external process *)

InitKit ==
    /\ variant \in {"service", "script"}
    /\ data_dir = InitConfig(variant).data_dir
    /\ report_file = InitConfig(variant).report_file
    /\ sample_size = InitConfig(variant).sample_size
    /\ csvkit_enabled = True
    /\ pc = "kit_call"
    /\ csv_files = <<>>
    /\ idx = 1
    /\ file_info = EmptyDict
    /\ enc = None
    /\ encArgs = <<>>
    /\ all_records = <<>>
    /\ steps = <<>>
    /\ attempted = <<>>
    /\ raisedOn = {}
    /\ csvkitCalls = 0
    /\ writeAttempts = 0
    /\ report = NoArtifact
    /\ outcome = "none"
    /\ walked = FALSE
    /\ wrote = "none"
    /\ log = <<>>
    /\ proc = NoProc
    /\ kit = NoKit
    /\ HashIdle
    /\ answers = NoAnswers
    /\ CliIdle

\* subprocess.run ends: the tool exited, timed out or could not be started
KitProcess ==
    /\ pc = "kit_call"
    /\ proc' \in ProcOutcomes
    /\ pc' = "kit_run"
    /\ UNCHANGED <<variant, cfgVars, fileVars, loopVars, endVars, csvkitCalls,
                   log, kit, sideVars>>

\* try_csvkit returns its tuple
KitReturn ==
    /\ pc = "kit_run"
    /\ kit' = try_csvkit(proc)
    /\ pc' = "kit_done"
    /\ UNCHANGED <<variant, cfgVars, fileVars, loopVars, endVars, csvkitCalls,
                   log, proc, sideVars>>

NextKit ==
    \/ KitProcess
    \/ KitReturn

SpecKit == InitKit /\ [][NextKit]_vars

----------------------------------------------------------------------------
(* Properties *)

Range(seq) == {seq[i] : i \in 1..Len(seq)}
Count(seq, x) == Cardinality({i \in 1..Len(seq) : seq[i] = x})
Last(seq) == seq[Len(seq)]

ProbeKeys(P) ==
    {P \o "_success", P \o "_rows", P \o "_cols", P \o "_headers", P \o "_error"}
CsvkitKeys == {"csvkit_success", "csvkit_rows", "csvkit_cols", "csvkit_error"}
BaseKeys == {"file_path", "file_size_bytes", "last_modified", "sha256",
             "encoding", "encoding_confidence"}
AllFields ==
    BaseKeys \cup CsvkitKeys \cup UNION {ProbeKeys(P) : P \in Range(ProbeNames)}

ProbeSucceeded(rec, P) ==
    /\ rec[P \o "_success"] = True
    /\ Populated(rec[P \o "_rows"])
    /\ Populated(rec[P \o "_cols"])
    /\ Populated(rec[P \o "_headers"])
    /\ IsNone(rec[P \o "_error"])

ProbeFailed(rec, P) ==
    /\ rec[P \o "_success"] = False
    /\ Populated(rec[P \o "_error"])
    /\ IsNone(rec[P \o "_rows"])
    /\ IsNone(rec[P \o "_cols"])
    /\ IsNone(rec[P \o "_headers"])

\* C1: in every record profile_file returned, each of the three probes is
\* either a success with rows, cols and headers populated and no error, or a
\* failure with an error and no rows, cols or headers; exactly one of the two.
C1_ProbeExactlyOne ==
    \A i \in 1..Len(all_records) : \A P \in Range(ProbeNames) :
        /\ ProbeKeys(P) \subseteq DOMAIN all_records[i]
        /\ ProbeSucceeded(all_records[i], P) # ProbeFailed(all_records[i], P)

\* a returned record in which one probe succeeded and another failed
C1_Witness ==
    \E i \in 1..Len(all_records) :
        /\ ProbeSucceeded(all_records[i], "python_csv")
        /\ ProbeFailed(all_records[i], "pandas")

\* the profile_file call that just ended had reached encoding detection, so
\* its stat and hash steps succeeded
EndedPastHash == pc = "loop" /\ "detect" \in Range(steps)

\* C2: for every file whose stat and hash succeed, profile_file invokes each
\* of the three probes exactly once, runs the validator when it is enabled,
\* and returns a record instead of raising.
C2_AllProbesRun ==
    EndedPastHash =>
        /\ \A P \in Range(ProbeNames) : Count(steps, P) = 1
        /\ Truthy(csvkit_enabled) => Count(steps, "csvkit") = 1
        /\ Last(attempted) \notin raisedOn

AllPaths == [i \in 1..Len(csv_files) |-> csv_files[i].path]
RecordPaths == [i \in 1..Len(all_records) |-> all_records[i]["file_path"].n]
Survivors == SelectSeq(AllPaths, LAMBDA q : q \notin raisedOn)

\* C3: once the loop is over, profile_file has been called on every
\* discovered file, in order, and the records handed to the report writer
\* are those of the files that did not raise, in discovery order.
C3_WalkNeverAborts ==
    pc \in {"write", "done"} =>
        /\ attempted = AllPaths
        /\ RecordPaths = Survivors

\* the first file failed, the second was still profiled and is handed over
C3_Witness ==
    /\ pc = "write"
    /\ Len(csv_files) = 2
    /\ raisedOn = {1}
    /\ RecordPaths = <<2>>

\* C4: profile_file raises only when the stat or the hash step fails; once
\* hashing succeeded, the record is returned whatever fails later.
C4_RaisesOnlyOnStatOrHash ==
    (pc = "loop" /\ steps # <<>>) =>
        /\ Last(attempted) \in raisedOn => Last(steps) \in {"stat", "hash"}
        /\ "hash" \in Range(steps) /\ Last(steps) # "hash" =>
              /\ all_records # <<>>
              /\ Last(RecordPaths) = Last(attempted)

\* C5: every returned record has the full field set; with the validator
\* disabled the four csvkit fields are present and hold None.
C5_FullFieldSet ==
    \A i \in 1..Len(all_records) :
        /\ DOMAIN all_records[i] = AllFields
        /\ ~Truthy(csvkit_enabled) =>
              \A k \in CsvkitKeys : IsNone(all_records[i][k])

\* C6: a run whose walk found no file, or whose files all failed, ends
\* without a write attempt and returns normally.
C6_NothingToProfile ==
    (pc = "done" /\ walked /\ all_records = <<>>) =>
        /\ wrote = "none"
        /\ writeAttempts = 0
        /\ outcome = "returned"

\* the records that carry an encoding: the returned ones and the one being built
WithEncoding ==
    {all_records[i] : i \in 1..Len(all_records)}
    \cup (IF "encoding" \in DOMAIN file_info THEN {file_info} ELSE {})

\* C7: detect_encoding never returns an absent encoding: without a guess of
\* the library the encoding is the default name and the confidence is 0.
\* (That it never raises is the first conjunct of C4_RaisesOnlyOnStatOrHash.)
C7_DetectNeverAbsent ==
    \A rec \in WithEncoding :
        /\ Populated(rec["encoding"])
        /\ rec["encoding"] # AsciiGuess.encoding =>
              /\ rec["encoding"] = StrV("utf-8")
              /\ rec["encoding_confidence"].n = 0

\* C8: try_csvkit returns success only for exit 0 with an array of objects
\* carrying row_count; for every other outcome of the process it returns
\* failure with an error.
C8_CsvkitFailsSafely ==
    pc = "kit_done" =>
        LET good == proc.how = "exit" /\ proc.code = 0 /\ WellFormed(proc.stdout)
        IN  /\ kit[1] = True => good
            /\ ~good => kit[1] = False /\ Populated(kit[4])

\* C9: with the validator disabled try_csvkit is never invoked, and a run
\* that collected records still reaches the write step; when the write
\* succeeds the report holds the collected records and the driver returns.
C9_DisabledNeverSpawns ==
    ~Truthy(csvkit_enabled) =>
        /\ csvkitCalls = 0
        /\ "csvkit" \notin Range(steps)
        /\ (pc = "done" /\ all_records # <<>>) =>
              /\ wrote # "none"
              /\ wrote = "ok" =>
                    report.rows = all_records /\ outcome = "returned"

\* a run with the validator disabled that wrote its report
C9_Witness ==
    /\ pc = "done"
    /\ ~Truthy(csvkit_enabled)
    /\ Len(all_records) = 2
    /\ wrote = "ok"
    /\ csvkitCalls = 0

\* C10: a failed write is surfaced to the caller as an error, and the write
\* is attempted at most once.
C10_WriteFailureSurfaces ==
    /\ writeAttempts <= 1
    /\ (pc = "done" /\ wrote \in {"frame_error", "write_error"}) =>
          outcome = "raised"


\* the driver emitted a message with this tag and this count
Emitted(tag, n) == \E i \in 1..Len(log) : log[i] = Msg(tag, n)

\* C11: a run that discovered at least one file ends with a summary of the
\* files discovered, profiled and skipped, the first being the sum of the
\* other two, whether the write succeeded or failed.
C11_SummaryEmitted ==
    (pc = "done" /\ walked /\ Len(csv_files) >= 1) =>
        /\ Emitted("found", Len(csv_files))
        /\ Emitted("profiled", Len(all_records))
        /\ Emitted("skipped", Cardinality(raisedOn))
        /\ Len(csv_files) = Len(all_records) + Cardinality(raisedOn)


\* C12: the report is written at most once per run and only after
\* profile_file was attempted on every discovered file; a written report has
\* exactly one row per collected record, duplicates of a digest included, and
\* nothing of an older artifact; without a successful write the artifact at
\* the path is the one the run found.
C12_WrittenOnceAtEnd ==
    /\ writeAttempts <= 1
    /\ wrote # "none" => pc = "done" /\ attempted = AllPaths
    /\ wrote = "ok" =>
          /\ report.exists
          /\ Len(report.rows) = Len(all_records)
          /\ \A i \in 1..Len(all_records) : report.rows[i] = all_records[i]
    /\ wrote # "ok" => report \in {NoArtifact, PriorArtifact}

\* a written report with two rows that share a digest but not a path
C12_Witness ==
    /\ wrote = "ok"
    /\ Len(report.rows) = 2
    /\ report.rows[1]["sha256"] = report.rows[2]["sha256"]
    /\ report.rows[1]["file_path"] # report.rows[2]["file_path"]


----------------------------------------------------------------------------
(* compute_hash on its own: two files of any content under different paths *)

HashedFile(path, mtime, bytes) == [path |-> path, mtime |-> mtime, bytes |-> bytes]

InitHash ==
    /\ variant \in {"service", "script"}
    /\ data_dir = InitConfig(variant).data_dir
    /\ report_file = InitConfig(variant).report_file
    /\ sample_size = InitConfig(variant).sample_size
    /\ csvkit_enabled = InitConfig(variant).csvkit_enabled
    /\ pc = "hash_call"
    /\ csv_files = <<>>
    /\ idx = 1
    /\ file_info = EmptyDict
    /\ enc = None
    /\ encArgs = <<>>
    /\ all_records = <<>>
    /\ steps = <<>>
    /\ attempted = <<>>
    /\ raisedOn = {}
    /\ csvkitCalls = 0
    /\ writeAttempts = 0
    /\ report = NoArtifact
    /\ outcome = "none"
    /\ walked = FALSE
    /\ wrote = "none"
    /\ log = <<>>
    /\ proc = NoProc
    /\ kit = NoKit
    /\ \E b1 \in ByteStrings, b2 \in ByteStrings :
          hfiles = <<HashedFile("a.csv", 1, b1), HashedFile("sub/b.csv", 2, b2)>>
    /\ hk = 0
    /\ hpos = 0
    /\ sha = sha256_new
    /\ digests = <<>>
    /\ answers = NoAnswers
    /\ CliIdle

batchVars == <<variant, cfgVars, fileVars, loopVars, endVars, csvkitCalls, log>>

\* compute_hash(file_path): a new sha256 object, the file opened at offset 0
HashOpen ==
    /\ pc = "hash_call"
    /\ hk < Len(hfiles)
    /\ hk' = hk + 1
    /\ sha' = sha256_new
    /\ hpos' = 0
    /\ pc' = "hash_read"
    /\ UNCHANGED <<batchVars, kitVars, hfiles, digests, answers, cliVars>>

\* one round of: for chunk in iter(lambda: f.read(8192), b"")
HashRead ==
    /\ pc = "hash_read"
    /\ LET chunk == f_read(hfiles[hk].bytes, hpos, ChunkSize)
       IN  IF chunk = <<>>
           THEN /\ digests' = Append(digests, sha256_hexdigest(sha))
                /\ pc' = "hash_call"
                /\ UNCHANGED <<sha, hpos>>
           ELSE /\ sha' = sha256_update(sha, chunk)
                /\ hpos' = hpos + Len(chunk)
                /\ UNCHANGED <<pc, digests>>
    /\ UNCHANGED <<batchVars, kitVars, hfiles, hk, answers, cliVars>>

NextHash ==
    \/ HashOpen
    \/ HashRead

SpecHash == InitHash /\ [][NextHash]_vars

\* C13: the digest compute_hash returns is the digest of the file's bytes,
\* each folded once and in order, so two files with the same bytes get the
\* same digest whatever their path, metadata or length.
C13_HashOfContentOnly ==
    /\ \A k \in 1..Len(digests) :
          digests[k] = sha256_hexdigest(hfiles[k].bytes)
    /\ Len(digests) = 2 /\ hfiles[1].bytes = hfiles[2].bytes =>
          digests[1] = digests[2]

\* two files of equal content, several chunks long with a short last chunk,
\* under different paths and modification times, both hashed
C13_Witness ==
    /\ Len(digests) = 2
    /\ hfiles[1].bytes = hfiles[2].bytes
    /\ hfiles[1].path # hfiles[2].path
    /\ hfiles[1].mtime # hfiles[2].mtime
    /\ Len(hfiles[1].bytes) > ChunkSize
    /\ Len(hfiles[1].bytes) % ChunkSize # 0


\* the steps of profile_file in the order of its body
StepOrder == <<"stat", "hash", "detect">> \o ProbeNames \o <<"csvkit">>

IsPrefix(a, b) == Len(a) <= Len(b) /\ a = SubSeq(b, 1, Len(a))

\* the control points inside profile_file
InProfileFile == pc \in Range(StepOrder) \cup {"return"}

\* C14: the steps of profile_file run in the order stat, hash, detection,
\* the three probes, the validator; every probe is called with the encoding
\* detection produced; and the driver starts a file only when every earlier
\* file has either its record collected or its failure caught.
C14_StepsInOrder ==
    /\ IsPrefix(steps, StepOrder)
    /\ \A i \in 1..Len(encArgs) :
          /\ steps[3] = "detect"
          /\ encArgs[i] = file_info["encoding"]
    /\ Len(attempted) =
          Len(all_records) + Cardinality(raisedOn) + (IF InProfileFile THEN 1 ELSE 0)

\* the second file of a run went through every step with a detected encoding
\* after the first one failed
C14_Witness ==
    /\ pc = "done"
    /\ Len(attempted) = 2
    /\ Cardinality(raisedOn) = 1
    /\ steps = StepOrder
    /\ Len(encArgs) = 3
    /\ enc = StrV("ascii")


----------------------------------------------------------------------------
(* Interactive configuration followed by the start of a batch run *)

\* no batch run, validator call or hashing is in progress
BatchIdle ==
    /\ csv_files = <<>>
    /\ idx = 1
    /\ file_info = EmptyDict
    /\ enc = None
    /\ encArgs = <<>>
    /\ all_records = <<>>
    /\ steps = <<>>
    /\ attempted = <<>>
    /\ raisedOn = {}
    /\ csvkitCalls = 0
    /\ writeAttempts = 0
    /\ report = NoArtifact
    /\ outcome = "none"
    /\ walked = FALSE
    /\ wrote = "none"
    /\ log = <<>>
    /\ proc = NoProc
    /\ kit = NoKit
    /\ HashIdle

InitCfg ==
    /\ variant \in {"service", "script"}
    /\ data_dir = InitConfig(variant).data_dir
    /\ report_file = InitConfig(variant).report_file
    /\ sample_size = InitConfig(variant).sample_size
    /\ csvkit_enabled = InitConfig(variant).csvkit_enabled
    /\ pc = IF variant = "service" THEN "cfg_menu" ELSE "cfg_main"
    /\ BatchIdle
    /\ answers = NoAnswers
    /\ CliIdle

\* menu item "Configure Settings" of the service, with the answers recorded
CfgConfigure ==
    /\ variant = "service"
    /\ pc = "cfg_menu"
    /\ \E in \in CfgConfigureInputs :
          /\ SetConfig(configure(Config, in))
          /\ answers' = Answers(in.use_defaults, in.csvkit)
    /\ UNCHANGED <<variant, pc, fileVars, loopVars, endVars, csvkitCalls, log,
                   kitVars, hashVars, cliVars>>

\* menu items "Quick Profile" and "Profile CSVs": run_profile starts
CfgRunProfile ==
    /\ variant = "service"
    /\ pc = "cfg_menu"
    /\ pc' = "cfg_run"
    /\ UNCHANGED <<batchVars, kitVars, sideVars>>

\* run_profile returns and the menu is shown again
CfgBackToMenu ==
    /\ variant = "service"
    /\ pc = "cfg_run"
    /\ pc' = "cfg_menu"
    /\ UNCHANGED <<batchVars, kitVars, sideVars>>

\* main() of the script: init(), then the batch run unless int() raised
CfgInit ==
    /\ variant = "script"
    /\ pc = "cfg_main"
    /\ \E in \in CfgInitInputs :
          LET r == init(Config, in)
          IN  /\ SetConfig(r.cfg)
              /\ answers' = Answers(Lower(in.use_defaults) = <<"y">>,
                                    Lower(in.csvkit) = <<"y">>)
              /\ pc' = IF r.raised THEN "cfg_raised" ELSE "cfg_run"
    /\ UNCHANGED <<variant, fileVars, loopVars, endVars, csvkitCalls, log,
                   kitVars, hashVars, cliVars>>

NextCfg ==
    \/ CfgConfigure
    \/ CfgRunProfile
    \/ CfgBackToMenu
    \/ CfgInit

SpecCfg == InitCfg /\ [][NextCfg]_vars

\* C15: a batch run that follows a configuration in which the user accepted
\* the defaults runs with data_dir = test_csvs, report_file =
\* csv_profile_report.parquet, sample_size = 32768 and the validator enabled,
\* in the service and in the script.
C15_DefaultsAccepted ==
    (pc = "cfg_run" /\ answers.asked /\ answers.defaults) =>
        /\ data_dir = PathV("test_csvs")
        /\ report_file = PathV("csv_profile_report.parquet")
        /\ sample_size = IntV(32768)
        /\ csvkit_enabled = True

\* C16: a batch run that follows a configuration in which the user did not
\* accept the defaults runs with the validator disabled when the user
\* declined it and enabled when the user accepted it, in both variants.
C16_ValidatorAsAnswered ==
    (pc = "cfg_run" /\ answers.asked /\ ~answers.defaults) =>
        /\ answers.validator = "no" => csvkit_enabled = False
        /\ answers.validator = "yes" => csvkit_enabled = True


----------------------------------------------------------------------------
(* Any sequence of update calls on a new CLIOrchestrator *)

\* the profiler is not in use
ProfilerIdle ==
    /\ variant = "service"
    /\ data_dir = ServiceInitConfig.data_dir
    /\ report_file = ServiceInitConfig.report_file
    /\ sample_size = ServiceInitConfig.sample_size
    /\ csvkit_enabled = ServiceInitConfig.csvkit_enabled
    /\ BatchIdle
    /\ answers = NoAnswers

InitUpdate ==
    /\ ProfilerIdle
    /\ pc = "cli_update"
    /\ CliIdle

\* one call of update with any target, recorded with the state it found
UpdateCall ==
    /\ pc = "cli_update"
    /\ Len(calls) < MaxCalls
    /\ \E target \in GitStates :
          LET r == update(state, target)
          IN  /\ state' = r.state
              /\ calls' = Append(calls,
                     [from |-> state, target |-> target, raised |-> r.raised])
    /\ UNCHANGED <<pc, batchVars, kitVars, hashVars, answers, invoked, status>>

NextUpdate ==
    \/ UpdateCall

SpecUpdate == InitUpdate /\ [][NextUpdate]_vars

\* the state in which the i-th recorded update call left the orchestrator
StateAfter(i) == IF i < Len(calls) THEN calls[i + 1].from ELSE state

\* the successor table of the claim
C17_Successor(s) ==
    CASE s = "INIT" -> "RUNNING" [] s = "RUNNING" -> "EXIT"
      [] s = "EXIT" -> "EXIT" [] s = "ERROR" -> "ERROR"

\* C17: update(target) moves to target exactly when target is ERROR, is the
\* current state or is its successor; any other call raises and changes
\* nothing. ERROR is never left and EXIT is left only for ERROR.
C17_UpdateTransitions ==
    \A i \in 1..Len(calls) :
        LET c == calls[i]
            legal == \/ c.target = "ERROR"
                     \/ c.target = c.from
                     \/ c.target = C17_Successor(c.from)
        IN  /\ legal => StateAfter(i) = c.target /\ ~c.raised
            /\ ~legal => StateAfter(i) = c.from /\ c.raised
            /\ c.from = "ERROR" => StateAfter(i) = "ERROR"
            /\ c.from = "EXIT" => StateAfter(i) \in {"EXIT", "ERROR"}

\* INIT to RUNNING to EXIT, a refused call in EXIT, then ERROR
C17_Witness ==
    /\ Len(calls) = 4
    /\ calls[1].from = "INIT" /\ calls[1].target = "RUNNING"
    /\ calls[2].target = "EXIT" /\ ~calls[2].raised
    /\ calls[3].from = "EXIT" /\ calls[3].target = "INIT" /\ calls[3].raised
    /\ calls[4].from = "EXIT" /\ calls[4].target = "ERROR"
    /\ state = "ERROR"


----------------------------------------------------------------------------
(* CLIOrchestrator.run on the orchestrator main() builds *)

InitRun ==
    /\ ProfilerIdle
    /\ pc = "run_call"
    /\ CliIdle

\* self.update(target), recorded in the history of calls
DoUpdate(target) ==
    /\ state' = update(state, target).state
    /\ calls' = Append(calls, [from |-> state, target |-> target,
                               raised |-> update(state, target).raised])

\* self.update(GitStates.RUNNING), before the try block
RunEnter ==
    /\ pc = "run_call"
    /\ DoUpdate("RUNNING")
    /\ IF update(state, "RUNNING").raised
       THEN pc' = "run_exited" /\ status' = IntV(1)
       ELSE pc' = "run_select" /\ UNCHANGED status
    /\ UNCHANGED <<batchVars, kitVars, hashVars, answers, invoked>>

\* the menu of one round of the while loop answers with a task, whose
\* handler is invoked
RunSelectTask ==
    /\ pc = "run_select"
    /\ state = "RUNNING"
    /\ Len(invoked) < MaxSelections
    /\ \E t \in Tasks :
          invoked' = Append(invoked,
              [task |-> t, state |-> state, status |-> status,
               outcome |-> "running"])
    /\ pc' = "run_handler"
    /\ UNCHANGED <<batchVars, kitVars, hashVars, answers, state, calls, status>>

\* the menu answers None (Exit): update(EXIT), then sys.exit(0), whose
\* SystemExit the except clause does not catch
RunSelectExit ==
    /\ pc = "run_select"
    /\ state = "RUNNING"
    /\ DoUpdate("EXIT")
    /\ IF update(state, "EXIT").raised
       THEN pc' = "run_except" /\ UNCHANGED status
       ELSE pc' = "run_exited" /\ status' = IntV(0)
    /\ UNCHANGED <<batchVars, kitVars, hashVars, answers, invoked>>

\* the menu itself raises instead of answering
RunSelectFails ==
    /\ pc = "run_select"
    /\ state = "RUNNING"
    /\ \E o \in CallOutcomes \ {"returns"} :
          /\ pc' = after_call(o)
          /\ status' = IF o = "interrupted" THEN Interrupted ELSE status
    /\ UNCHANGED <<batchVars, kitVars, hashVars, answers, state, calls, invoked>>

\* selection.handler() ends
RunHandler ==
    /\ pc = "run_handler"
    /\ \E o \in CallOutcomes :
          /\ invoked' = [invoked EXCEPT ![Len(invoked)].outcome = o]
          /\ pc' = after_call(o)
          /\ status' = IF o = "interrupted" THEN Interrupted ELSE status
    /\ UNCHANGED <<batchVars, kitVars, hashVars, answers, state, calls>>

\* except Exception: update(ERROR), sys.exit(1)
RunExcept ==
    /\ pc = "run_except"
    /\ DoUpdate("ERROR")
    /\ status' = IntV(1)
    /\ pc' = "run_exited"
    /\ UNCHANGED <<batchVars, kitVars, hashVars, answers, invoked>>

NextRun ==
    \/ RunEnter
    \/ RunSelectTask
    \/ RunSelectExit
    \/ RunSelectFails
    \/ RunHandler
    \/ RunExcept

SpecRun == InitRun /\ [][NextRun]_vars

ExitSelected == \E i \in 1..Len(calls) : calls[i].target = "EXIT"
EverError ==
    state = "ERROR" \/ \E i \in 1..Len(calls) : "ERROR" \in {calls[i].from, calls[i].target}

\* C18: in a run started from INIT every handler is invoked in state
\* RUNNING while the process is alive; once Exit is selected the state is
\* EXIT, the process has ended with status 0 and the state never was ERROR;
\* a handler that raised an Exception is the last one invoked, and the run
\* ends in state ERROR with status 1.
C18_RunLifecycle ==
    /\ \A i \in 1..Len(invoked) :
          /\ invoked[i].state = "RUNNING"
          /\ IsNone(invoked[i].status)
          /\ invoked[i].outcome = "raises" =>
                /\ i = Len(invoked)
                /\ pc \in {"run_except", "run_exited"}
                /\ pc = "run_exited" => state = "ERROR" /\ status = IntV(1)
    /\ ExitSelected =>
          /\ pc = "run_exited"
          /\ state = "EXIT"
          /\ status = IntV(0)
          /\ ~EverError
    /\ ~IsNone(status) => pc = "run_exited"

\* two handlers returned, a third raised, and the run ended in ERROR with
\* status 1
C18_Witness ==
    /\ pc = "run_exited"
    /\ Len(invoked) = 3
    /\ invoked[1].outcome = "returns"
    /\ invoked[3].outcome = "raises"
    /\ state = "ERROR"
    /\ status = IntV(1)


\* C19: whenever try_csvkit returns success, the row count and the column
\* count are both populated and the error is absent, also when the tool
\* exits 0 printing an empty JSON array.
C19_SuccessHasShape ==
    (pc = "kit_done" /\ kit[1] = True) =>
        /\ Populated(kit[2])
        /\ Populated(kit[3])
        /\ IsNone(kit[4])

====
